---- MODULE Spec2Model ----
(***************************************************************************)
(* Model of the T4ED rack sequence locator (src/app/src/main.rs).          *)
(*                                                                         *)
(* Text is a sequence of one-character strings (<<"1","6","0">> is "160"), *)
(* so that parsing and formatting are computed digit by digit.  A usize    *)
(* is the pair <<hi, lo>> of its two 16-bit halves: the widget is built    *)
(* for a 32-bit web target, and the pair keeps overflow exact.             *)
(*                                                                         *)
(* The page is taken to hold the elements the code queries for             *)
(* (.scan-loc, .scan-loc__location-display, ...); scrolling and the        *)
(* max-height style are presentation only and are not part of the state.   *)
(***************************************************************************)
EXTENDS Integers, Sequences, FiniteSets, TLC

VARIABLES
    app,        \* T4edRack: selected (cells carrying scan-loc__cell--selected),
                \*           dirty_locations, rack_indicator (text content),
                \*           columns (the grid under .scan-loc__column-container)
    errors,     \* ErrorDisplay: errors (Vec<(RackError, Element)>), container (children)
    input,      \* raw value of the .scan-loc__location-picker input element
    value,      \* `value` argument of the latest handle_input_change call
    outcome,    \* branch in which the latest handle_input_change call ended
    pc,         \* "load": run() not yet past its page-load pass; "ready"; "aborted"
    build,      \* how the program was compiled: overflow checks, panic strategy
    op,         \* latest call made on ErrorDisplay or T4edRack directly (outside
                \* the pipeline)
    source      \* the listener called last: "input", "touch", "over", "down"
                \* ("load" for run()'s own pass, "none" before it)

vars == <<app, errors, input, value, outcome, pc, build, op, source>>

----------------------------------------------------------------------------
(* Bounds of the model.                                                    *)

\* Decimal texts "0" .. MaxSeq are among the raw values.
MaxSeq == 163

\* Every text over Alphabet of at most MaxLen characters is among the raw values.
MaxLen == 2

\* Bounds carried by OutOfRange values in direct uses of ErrorDisplay: 0..MaxBound.
MaxBound == 1

\* Most children the error container is let to hold.
MaxChildren == 3

----------------------------------------------------------------------------
(* Program constants.                                                      *)

\* 2^16: a usize is 32 bits wide, held as two 16-bit halves.
HalfBase == 65536

MaxSequence == 160

RackSize == 80

NumColumns == 5

CellsPerColumn == 16

----------------------------------------------------------------------------
(* usize arithmetic on <<hi, lo>>.                                         *)

Usize(n) == <<n \div HalfBase, n % HalfBase>>

\* a > b, a < b on usize
UGt(a, b) == a[1] > b[1] \/ (a[1] = b[1] /\ a[2] > b[2])

ULt(a, b) == UGt(b, a)

\* a.checked_mul(10): None on overflow
CheckedMul10(a) ==
    LET lo == a[2] * 10
        hi == a[1] * 10 + (lo \div HalfBase)
    IN  IF hi >= HalfBase
        THEN [some |-> FALSE, val |-> <<0, 0>>]
        ELSE [some |-> TRUE, val |-> <<hi, lo % HalfBase>>]

\* a.checked_add(d) for a digit d: None on overflow
CheckedAdd(a, d) ==
    LET lo == a[2] + d
        hi == a[1] + (lo \div HalfBase)
    IN  IF hi >= HalfBase
        THEN [some |-> FALSE, val |-> <<0, 0>>]
        ELSE [some |-> TRUE, val |-> <<hi, lo % HalfBase>>]

\* a - b as the machine computes it: the wrapped difference, and whether it wrapped
USub(a, b) ==
    LET borrow == IF a[2] < b[2] THEN 1 ELSE 0
        lo == a[2] - b[2] + borrow * HalfBase
        hi == a[1] - b[1] - borrow
    IN  [val |-> <<hi % HalfBase, lo>>, overflow |-> hi < 0]

----------------------------------------------------------------------------
(* Text.                                                                   *)

Digits == <<"0", "1", "2", "3", "4", "5", "6", "7", "8", "9">>

IsDigit(c) == \E d \in 1..10 : Digits[d] = c

\* char::to_digit(10) of a digit character
ToDigit(c) == (CHOOSE d \in 1..10 : Digits[d] = c) - 1

\* format!("{}", n) for a small n
RECURSIVE FormatUsize(_)
FormatUsize(n) ==
    IF n < 10 THEN <<Digits[n + 1]>>
    ELSE Append(FormatUsize(n \div 10), Digits[(n % 10) + 1])

\* the characters of a text run together, as the DOM holds text content
RECURSIVE Join(_)
Join(cs) == IF cs = <<>> THEN "" ELSE Head(cs) \o Join(Tail(cs))

\* the digit loop of usize::from_str_radix(_, 10)
RECURSIVE ParseDigits(_, _)
ParseDigits(cs, acc) ==
    IF cs = <<>> THEN [ok |-> TRUE, val |-> acc, err |-> "none"]
    ELSE IF ~IsDigit(Head(cs)) THEN [ok |-> FALSE, val |-> <<0, 0>>, err |-> "InvalidDigit"]
    ELSE LET m == CheckedMul10(acc) IN
         IF ~m.some THEN [ok |-> FALSE, val |-> <<0, 0>>, err |-> "PosOverflow"]
         ELSE LET a == CheckedAdd(m.val, ToDigit(Head(cs))) IN
              IF ~a.some THEN [ok |-> FALSE, val |-> <<0, 0>>, err |-> "PosOverflow"]
              ELSE ParseDigits(Tail(cs), a.val)

\* parse_usize as a signed parse would do it: a leading "-" is dropped too
parse_usize_Signed(cs) ==
    IF cs = <<>> THEN [ok |-> FALSE, val |-> <<0, 0>>, err |-> "Empty"]
    ELSE LET digits == IF Head(cs) \in {"+", "-"} THEN Tail(cs) ELSE cs IN
         IF digits = <<>> THEN [ok |-> FALSE, val |-> <<0, 0>>, err |-> "InvalidDigit"]
         ELSE ParseDigits(digits, <<0, 0>>)

\* parse_usize: usize::from_str_radix(value, 10).  A leading "+" is accepted, a
\* leading "-" is not (usize is unsigned); a sign alone is an error.
parse_usize(cs) ==
    IF cs = <<>> THEN [ok |-> FALSE, val |-> <<0, 0>>, err |-> "Empty"]
    ELSE LET digits == IF Head(cs) = "+" THEN Tail(cs) ELSE cs IN
         IF digits = <<>> THEN [ok |-> FALSE, val |-> <<0, 0>>, err |-> "InvalidDigit"]
         ELSE ParseDigits(digits, <<0, 0>>)

----------------------------------------------------------------------------
(* T4edRack.                                                               *)

\* data-seq of the cells one column adds when `len` cells exist already
ColumnCells(len) == [i \in 1..CellsPerColumn |-> FormatUsize(len + 1 + (i - 1))]

\* the `locations` vector after `c` columns were created
RECURSIVE LocationsAfter(_)
LocationsAfter(c) ==
    IF c = 0 THEN <<>>
    ELSE LET prev == LocationsAfter(c - 1) IN prev \o ColumnCells(Len(prev))

\* T4edRack.locations: the data-seq attribute of each cell, in vector order.
\* Rust index k is position k + 1 here.
locations == LocationsAfter(NumColumns)

\* insertAdjacentElement with "beforeend": the element becomes the last child
InsertBeforeEnd(children, el) == Append(children, el)

\* insert_adjacent_element(target, InsertPosition::AfterBegin, el): the element
\* becomes the first child of the target
InsertAfterBegin(children, el) == <<el>> \o children

\* cell i of the column created when `len` cells exist.  A cell element is
\* named by the index in `locations` at which it ends up (cells.push, then
\* locations.append); its data-seq is the text `locations` holds there.
Cell(len, i) == len + i

\* the children of a column, in document order, after its first n cells
RECURSIVE ColumnChildren(_, _)
ColumnChildren(len, n) ==
    IF n = 0 THEN <<>>
    ELSE InsertAfterBegin(ColumnChildren(len, n - 1), Cell(len, n - 1))

\* the children of .scan-loc__column-container, in document order, after c
\* columns were created; the container is taken to be empty in the page
RECURSIVE ColumnsAfter(_)
ColumnsAfter(c) ==
    IF c = 0 THEN <<>>
    ELSE InsertAfterBegin(ColumnsAfter(c - 1),
                          ColumnChildren(Len(LocationsAfter(c - 1)), CellsPerColumn))

Range(f) == {f[i] : i \in DOMAIN f}

\* T4edRack::new.  `columns` is the grid as built: the columns in document
\* order (left to right), each the cells in document order (top to bottom).
NewRack(indicator) ==
    [selected |-> {}, dirty_locations |-> <<>>, rack_indicator |-> indicator,
     columns |-> ColumnsAfter(NumColumns)]

set_rack_number(rk, num) == [rk EXCEPT !.rack_indicator = Join(FormatUsize(num))]

clear_rack_number(rk) == [rk EXCEPT !.rack_indicator = ""]

\* deactivate_all that forgets the cells but leaves their class in place
deactivate_all_KeepsClass(rk) == [rk EXCEPT !.dirty_locations = <<>>]

deactivate_all(rk) ==
    [rk EXCEPT !.selected = @ \ Range(rk.dirty_locations),
               !.dirty_locations = <<>>]

\* RackLocal with the rack boundary one too low: 80 taken for the second rack
RackLocal_OffByOne(seq) ==
    IF ~ULt(seq, Usize(RackSize)) THEN USub(seq, Usize(RackSize)).val ELSE seq

\* `if seq > 80 { seq - 80 } else { seq }`
RackLocal(seq) ==
    IF UGt(seq, Usize(RackSize)) THEN USub(seq, Usize(RackSize)).val ELSE seq

\* highlight_location that clears the previous highlight before its range
\* test, so that every call that returns false leaves no cell highlighted
highlight_location_ClearsFirst(rk, seq, overflow_checks) ==
    LET cleared == deactivate_all(rk)
        sub == USub(RackLocal(seq), Usize(1))
        idx == sub.val[2]
    IN  IF UGt(seq, Usize(MaxSequence))
        THEN [app |-> cleared, ret |-> FALSE, panic |-> FALSE]
        ELSE IF sub.overflow /\ overflow_checks
        THEN [app |-> cleared, ret |-> FALSE, panic |-> TRUE]
        ELSE IF ULt(sub.val, Usize(Len(locations)))
        THEN [app |-> [cleared EXCEPT !.selected = @ \cup {idx},
                                      !.dirty_locations = Append(@, idx)],
              ret |-> TRUE, panic |-> FALSE]
        ELSE [app |-> cleared, ret |-> FALSE, panic |-> FALSE]

\* highlight_location: the rack afterwards, the value returned, and whether
\* `seq - 1` panicked (it does on 0 when overflow checks are compiled in;
\* without them it wraps to the largest usize).
highlight_location(rk, seq, overflow_checks) ==
    IF UGt(seq, Usize(MaxSequence))
    THEN [app |-> rk, ret |-> FALSE, panic |-> FALSE]
    ELSE LET cleared == deactivate_all(rk)
             sub == USub(RackLocal(seq), Usize(1))
             idx == sub.val[2]
         IN  IF sub.overflow /\ overflow_checks
             THEN [app |-> cleared, ret |-> FALSE, panic |-> TRUE]
             ELSE IF ULt(sub.val, Usize(Len(locations)))
             THEN [app |-> [cleared EXCEPT !.selected = @ \cup {idx},
                                           !.dirty_locations = Append(@, idx)],
                   ret |-> TRUE, panic |-> FALSE]
             ELSE [app |-> cleared, ret |-> FALSE, panic |-> FALSE]

----------------------------------------------------------------------------
(* RackError and ErrorDisplay.                                             *)

NotANumber == <<"NotANumber">>

OutOfRange(min, max) == <<"OutOfRange", min, max>>

\* impl fmt::Display for RackError
Display(error) ==
    IF error[1] = "OutOfRange"
    THEN "Sequence must be between " \o Join(FormatUsize(error[2])) \o " and "
         \o Join(FormatUsize(error[3])) \o "."
    ELSE "Sequence must be a positive integer."

\* eq_variant comparing whole values (derived PartialEq) instead of discriminants
eq_variant_ByValue(e1, e2) == e1 = e2

\* std::mem::discriminant(e1) == std::mem::discriminant(e2)
eq_variant(e1, e2) == e1[1] = e2[1]

NewErrorDisplay == [errors |-> <<>>, container |-> <<>>]

\* s without its i-th element (Vec::remove)
RemoveAt(s, i) == [j \in 1..(Len(s) - 1) |-> IF j < i THEN s[j] ELSE s[j + 1]]

\* s without the elements equal to x, order kept
RECURSIVE Without(_, _)
Without(s, x) ==
    IF s = <<>> THEN <<>>
    ELSE IF Head(s) = x THEN Without(Tail(s), x)
    ELSE <<Head(s)>> \o Without(Tail(s), x)

\* document().create_element("div"): an element no one holds yet.  Elements are
\* told apart by id; the least id not in use stands for the new one.
CreateElement(ed, text) ==
    LET used == {ed.container[i].id : i \in DOMAIN ed.container}
                \cup {ed.errors[i][2].id : i \in DOMAIN ed.errors}
        id == CHOOSE n \in 0..Cardinality(used) :
                  n \notin used /\ \A m \in 0..(n - 1) : m \in used
    IN  [id |-> id, text |-> text]

\* add_error that puts the new entry and its message first
add_error_Prepend(ed, error) ==
    IF ~\E i \in DOMAIN ed.errors : eq_variant(ed.errors[i][1], error)
    THEN LET el == CreateElement(ed, Display(error)) IN
         [errors |-> <<<<error, el>>>> \o ed.errors,
          container |-> <<el>> \o ed.container]
    ELSE ed

add_error(ed, error) ==
    IF ~\E i \in DOMAIN ed.errors : eq_variant(ed.errors[i][1], error)
    THEN LET el == CreateElement(ed, Display(error)) IN
         [errors |-> Append(ed.errors, <<error, el>>),
          container |-> Append(ed.container, el)]
    ELSE ed

\* clear_error without its el.remove(): the entry goes, the message stays
clear_error_KeepsElement(ed, error) ==
    IF \E i \in DOMAIN ed.errors : eq_variant(ed.errors[i][1], error)
    THEN LET i == CHOOSE k \in DOMAIN ed.errors :
                      /\ eq_variant(ed.errors[k][1], error)
                      /\ \A j \in 1..(k - 1) : ~eq_variant(ed.errors[j][1], error)
         IN  [ed EXCEPT !.errors = RemoveAt(ed.errors, i)]
    ELSE ed

clear_error(ed, error) ==
    IF \E i \in DOMAIN ed.errors : eq_variant(ed.errors[i][1], error)
    THEN LET i == CHOOSE k \in DOMAIN ed.errors :
                      /\ eq_variant(ed.errors[k][1], error)
                      /\ \A j \in 1..(k - 1) : ~eq_variant(ed.errors[j][1], error)
             el == ed.errors[i][2]
         IN  [errors |-> RemoveAt(ed.errors, i),
              container |-> Without(ed.container, el)]
    ELSE ed

\* clear_all: the vector is emptied; the elements are dropped, not removed
clear_all(ed) == [ed EXCEPT !.errors = <<>>]

----------------------------------------------------------------------------
(* The pipeline: handle_input_change.                                      *)

\* `if seq > 80 { 2 } else { 1 }`: the number handed to set_rack_number
RackNumber(seq) == IF UGt(seq, Usize(RackSize)) THEN 2 ELSE 1

\* the Ok(seq) arm without its clear_error(NotANumber)
HandleOk_KeepsNotANumber(rk, ed, seq, overflow_checks) ==
    LET h == highlight_location(rk, seq, overflow_checks)
    IN  IF h.panic
        THEN [app |-> h.app, errors |-> ed, outcome |-> "Panic"]
        ELSE IF ~h.ret
        THEN [app |-> deactivate_all(clear_rack_number(h.app)),
              errors |-> add_error(ed, OutOfRange(1, MaxSequence)),
              outcome |-> "OutOfRange"]
        ELSE [app |-> set_rack_number(h.app, RackNumber(seq)),
              errors |-> clear_error(ed, OutOfRange(0, 0)),
              outcome |-> "Valid"]

\* the Ok(seq) arm
HandleOk(rk, ed, seq, overflow_checks) ==
    LET e1 == clear_error(ed, NotANumber)
        h == highlight_location(rk, seq, overflow_checks)
    IN  IF h.panic
        THEN [app |-> h.app, errors |-> e1, outcome |-> "Panic"]
        ELSE IF ~h.ret
        THEN [app |-> deactivate_all(clear_rack_number(h.app)),
              errors |-> add_error(e1, OutOfRange(1, MaxSequence)),
              outcome |-> "OutOfRange"]
        ELSE [app |-> set_rack_number(h.app, RackNumber(seq)),
              errors |-> clear_error(e1, OutOfRange(0, 0)),
              outcome |-> "Valid"]

\* the Err(_) arm without the test for the empty string
HandleErr_NoEmpty(rk, ed, raw) ==
    [app |-> deactivate_all(clear_rack_number(rk)),
     errors |-> add_error(clear_error(ed, OutOfRange(0, 0)), NotANumber),
     outcome |-> "Invalid"]

\* the Err(_) arm
HandleErr(rk, ed, raw) ==
    LET rk1 == deactivate_all(clear_rack_number(rk))
        e1 == clear_error(ed, OutOfRange(0, 0))
    IN  IF raw = <<>>
        THEN [app |-> rk1, errors |-> clear_error(e1, NotANumber), outcome |-> "Empty"]
        ELSE [app |-> rk1, errors |-> add_error(e1, NotANumber), outcome |-> "Invalid"]

handle_input_change(rk, ed, raw, overflow_checks) ==
    LET parsed == parse_usize(raw) IN
    IF parsed.ok THEN HandleOk(rk, ed, parsed.val, overflow_checks)
    ELSE HandleErr(rk, ed, raw)

----------------------------------------------------------------------------
(* Raw values fed to the model.                                            *)

Alphabet == {"0", "7", "+", "-", "a"}

\* texts over Alphabet of length at most n
RECURSIVE TextsUpTo(_)
TextsUpTo(n) ==
    IF n = 0 THEN {<<>>}
    ELSE LET shorter == TextsUpTo(n - 1) IN
         shorter \cup {Append(t, c) : t \in shorter, c \in Alphabet}

Decimals == {FormatUsize(n) : n \in 0..MaxSeq}

\* the largest usize, the first number past it, and texts the widget's users
\* are known to produce
Examples ==
    { <<"4","2","9","4","9","6","7","2","9","5">>,
      <<"4","2","9","4","9","6","7","2","9","6">>,
      <<"9","9","9","9","9","9","9","9","9","9","9">>,
      <<"0","0","0","0","0","0","0","0","0","0","8","1">>,
      <<"a","b","c">>, <<"-","5">>, <<"3",".","5">>, <<"+","5">>, <<"+","1","6","1">>,
      <<"1","6","0"," ">>, <<"-","1","6","1">> }

Inputs == Decimals \cup TextsUpTo(MaxLen) \cup Examples

\* The ways the program can be compiled: with or without overflow checks, and
\* with panics that abort or unwind (which shows only where a panic can occur).
Builds == {b \in [overflow_checks : BOOLEAN, unwind : BOOLEAN] :
              b.unwind => b.overflow_checks}

\* 0-based indices of the cells
Cells == 0..(Len(locations) - 1)

----------------------------------------------------------------------------
(* The widget: run() and its listeners.                                    *)

\* State when run() has built the rack and the error display.  The input box
\* may hold a value left from before a refresh; the pagination element is
\* taken to be empty in the page, as the error container is.
Init ==
    /\ app = NewRack("")
    /\ errors = NewErrorDisplay
    /\ input \in Inputs
    /\ value = <<>>
    /\ outcome = "None"
    /\ pc = "load"
    /\ build \in Builds
    /\ op = <<"none">>
    /\ source = "none"

\* One pass of handle_input_change on raw, and what a panic in it leaves:
\* the partial updates stand; without unwinding the RefCell borrows are never
\* released, so every later listener call stops at borrow_mut.
Pass(raw) ==
    \E r \in {handle_input_change(app, errors, raw, build.overflow_checks)} :
    /\ app' = r.app
    /\ errors' = r.errors
    /\ value' = raw
    /\ outcome' = r.outcome
    /\ pc' = IF r.outcome # "Panic" THEN "ready"
             ELSE IF pc = "load" THEN "unbound"
             ELSE IF build.unwind THEN "ready" ELSE "aborted"

\* run(): the page-load pass on the value found in the input box.  A panic
\* here ends run() before any listener is bound.
PageLoad ==
    /\ pc = "load"
    /\ Pass(input)
    /\ source' = "load"
    /\ UNCHANGED <<input, build, op>>

\* The user edits the input box to raw; the InputEvent listener, if bound and
\* able to borrow, runs the pipeline on it.
InputEvent(raw) ==
    /\ pc # "load"
    /\ input' = raw
    /\ IF pc = "ready" THEN Pass(raw)
       ELSE UNCHANGED <<app, errors, value, outcome, pc>>
    /\ source' = IF pc = "unbound" THEN source ELSE "input"
    /\ UNCHANGED <<build, op>>

\* What element_from_point and get_attribute("data-seq") find under a touch:
\* no element, an element without data-seq, or cell k.
TouchTargets == {<<"none">>, <<"other">>} \cup {<<"cell", k>> : k \in Cells}

\* touch-move: nothing happens unless a cell is under the point; the RefCells
\* are borrowed before the input is written
TouchMove(target) ==
    /\ pc \in {"ready", "aborted"}
    /\ IF target[1] = "cell" /\ pc = "ready"
       THEN /\ input' = locations[target[2] + 1]
            /\ Pass(locations[target[2] + 1])
       ELSE UNCHANGED <<app, errors, input, value, outcome, pc>>
    /\ source' = "touch"
    /\ UNCHANGED <<build, op>>

\* mouse-over on cell k: the input is written before the RefCells are borrowed
MouseOver(k) ==
    /\ pc \in {"ready", "aborted"}
    /\ input' = locations[k + 1]
    /\ IF pc = "ready" THEN Pass(locations[k + 1])
       ELSE UNCHANGED <<app, errors, value, outcome, pc>>
    /\ source' = "over"
    /\ UNCHANGED <<build, op>>

\* mouse-down with a dispatch of its own: it highlights the cell and sets the
\* rack number, and leaves the errors as they are
MouseDown_OwnDispatch(k) ==
    /\ pc \in {"ready", "aborted"}
    /\ input' = locations[k + 1]
    /\ IF pc = "ready"
       THEN \E h \in {highlight_location(app, Usize(k + 1), build.overflow_checks)} :
               /\ app' = set_rack_number(h.app, 1)
               /\ value' = locations[k + 1]
               /\ outcome' = "Valid"
               /\ UNCHANGED <<errors, pc>>
       ELSE UNCHANGED <<app, errors, value, outcome, pc>>
    /\ source' = "down"
    /\ UNCHANGED <<build, op>>

\* mouse-down on cell k
MouseDown(k) ==
    /\ pc \in {"ready", "aborted"}
    /\ input' = locations[k + 1]
    /\ IF pc = "ready" THEN Pass(locations[k + 1])
       ELSE UNCHANGED <<app, errors, value, outcome, pc>>
    /\ source' = "down"
    /\ UNCHANGED <<build, op>>

Next ==
    \/ PageLoad
    \/ \E raw \in Inputs : InputEvent(raw)
    \/ \E target \in TouchTargets : TouchMove(target)
    \/ \E k \in Cells : MouseOver(k)
    \/ \E k \in Cells : MouseDown(k)

Spec == Init /\ [][Next]_vars

----------------------------------------------------------------------------
(* ErrorDisplay used on its own: add_error, clear_error and clear_all      *)
(* called in any order on a fresh display.                                 *)

ErrorValues ==
    {NotANumber, OutOfRange(1, MaxSequence)}
    \cup {OutOfRange(a, b) : a \in 0..MaxBound, b \in 0..MaxBound}

InitErrors ==
    /\ app = NewRack("")
    /\ errors = NewErrorDisplay
    /\ input = <<>>
    /\ value = <<>>
    /\ outcome = "None"
    /\ pc = "load"
    /\ build = [overflow_checks |-> FALSE, unwind |-> FALSE]
    /\ op = <<"none">>
    /\ source = "none"

AddError(error) ==
    /\ Len(errors.container) < MaxChildren
    /\ errors' = add_error(errors, error)
    /\ op' = <<"add", error>>
    /\ UNCHANGED <<app, input, value, outcome, pc, build, source>>

ClearError(error) ==
    /\ errors' = clear_error(errors, error)
    /\ op' = <<"clear", error>>
    /\ UNCHANGED <<app, input, value, outcome, pc, build, source>>

ClearAll ==
    /\ errors' = clear_all(errors)
    /\ op' = <<"clear_all">>
    /\ UNCHANGED <<app, input, value, outcome, pc, build, source>>

NextErrors ==
    \/ \E error \in ErrorValues : AddError(error)
    \/ \E error \in ErrorValues : ClearError(error)

SpecErrors == InitErrors /\ [][NextErrors]_vars

NextErrorsAll ==
    \/ \E error \in ErrorValues : AddError(error)
    \/ \E error \in ErrorValues : ClearError(error)
    \/ ClearAll

SpecErrorsAll == InitErrors /\ [][NextErrorsAll]_vars

----------------------------------------------------------------------------
(* T4edRack on its own: direct calls of highlight_location and             *)
(* deactivate_all on a rack, as a caller other than handle_input_change    *)
(* may make them.  op records the latest call, its argument and how it     *)
(* ended: <<"highlight", seq, "true" | "false" | "panic">>.                *)

\* the arguments tried: 0 .. MaxSeq and the largest usize
RackSeqs == {Usize(n) : n \in 0..MaxSeq} \cup {<<HalfBase - 1, HalfBase - 1>>}

InitRack ==
    /\ app = NewRack("")
    /\ errors = NewErrorDisplay
    /\ input = <<>>
    /\ value = <<>>
    /\ outcome = "None"
    /\ pc = "ready"
    /\ build \in Builds
    /\ op = <<"none">>
    /\ source = "none"

\* a panic without unwinding ends the program: no call follows it
HighlightLocation(seq) ==
    /\ pc = "ready"
    /\ \E r \in {highlight_location(app, seq, build.overflow_checks)} :
          /\ app' = r.app
          /\ op' = <<"highlight", seq,
                     IF r.panic THEN "panic" ELSE IF r.ret THEN "true" ELSE "false">>
          /\ pc' = IF r.panic /\ ~build.unwind THEN "aborted" ELSE "ready"
    /\ UNCHANGED <<errors, input, value, outcome, build, source>>

DeactivateAll ==
    /\ pc = "ready"
    /\ app' = deactivate_all(app)
    /\ op' = <<"deactivate_all">>
    /\ UNCHANGED <<errors, input, value, outcome, pc, build, source>>

NextRack ==
    \/ \E seq \in RackSeqs : HighlightLocation(seq)
    \/ DeactivateAll

SpecRack == InitRack /\ [][NextRack]_vars

----------------------------------------------------------------------------
(* What the properties below read off the state.                           *)

\* the error kinds tracked by an ErrorDisplay
KindsOf(ed) == {ed.errors[i][1][1] : i \in DOMAIN ed.errors}

ActiveKinds == KindsOf(errors)

\* the messages shown in the error container, top to bottom
Shown == [i \in DOMAIN errors.container |-> errors.container[i].text]

\* a pass of handle_input_change has run (to its end or into a panic)
Passed == outcome # "None"

\* one or more decimal digits and nothing else
AllDigits(cs) == cs # <<>> /\ \A i \in DOMAIN cs : cs[i] \in Range(Digits)

\* an integer written out: digits, with "-" in front when negative
IntegerText(cs) ==
    cs # <<>> /\ AllDigits(IF Head(cs) = "-" THEN Tail(cs) ELSE cs)

\* a digit text without its leading zeros
RECURSIVE Significant(_)
Significant(ds) ==
    IF ds # <<>> /\ Head(ds) = "0" THEN Significant(Tail(ds)) ELSE ds

\* the number a short digit text denotes
RECURSIVE DecValue(_)
DecValue(ds) ==
    IF ds = <<>> THEN 0
    ELSE 10 * DecValue(SubSeq(ds, 1, Len(ds) - 1))
         + (CHOOSE d \in 0..9 : Digits[d + 1] = ds[Len(ds)])

\* cs writes an integer s with s <= 0 or s > 160
OutsideRange(cs) ==
    /\ IntegerText(cs)
    /\ \/ Head(cs) = "-"
       \/ LET sig == Significant(cs) IN
          Len(sig) > 3 \/ DecValue(sig) = 0 \/ DecValue(sig) > 160

\* digits, with at most one "+" in front
PlusDigits(cs) ==
    cs # <<>> /\ AllDigits(IF Head(cs) = "+" THEN Tail(cs) ELSE cs)

----------------------------------------------------------------------------
(* Properties of the pipeline, checked under Spec.                         *)

\* C1: for every s in 1..160 a pass on the decimal text of s ends Valid: the
\* rack number shown is 1 if s <= 80 and 2 otherwise, the one highlighted
\* cell is the one at index (s-1) mod 80, and no error is active or shown.
C1_ValidMapping ==
    /\ \A s \in 1..160 :
          (Passed /\ value = FormatUsize(s)) =>
              /\ outcome = "Valid"
              /\ app.rack_indicator = (IF s <= 80 THEN "1" ELSE "2")
              /\ app.selected = {(s - 1) % 80}
              /\ ActiveKinds = {}
              /\ Shown = <<>>
    /\ (Passed /\ value = <<"8", "0">>) =>
          app.rack_indicator = "1" /\ app.selected = {79}
    /\ (Passed /\ value = <<"8", "1">>) =>
          app.rack_indicator = "2" /\ app.selected = {0}
    /\ (Passed /\ value = <<"1", "6", "0">>) =>
          app.rack_indicator = "2" /\ app.selected = {79}

\* a pass on "81" has ended with cell 0 of rack 2 highlighted
C1_Witness ==
    /\ outcome = "Valid"
    /\ value = <<"8", "1">>
    /\ app.selected = {0}
    /\ app.rack_indicator = "2"
    /\ errors.errors = <<>>

\* C2, as claimed: for every integer s <= 0 or s > 160 given as text (0,
\* negative numbers and numbers too large for a usize included), a pass ends
\* OutOfRange: OutOfRange active, NotANumber not, no cell highlighted, the
\* rack number blank.
C2_OutOfRangeForEveryInteger ==
    (Passed /\ OutsideRange(value)) =>
        /\ outcome = "OutOfRange"
        /\ ActiveKinds = {"OutOfRange"}
        /\ app.selected = {}
        /\ app.rack_indicator = ""

\* C3, as claimed: every non-empty text that is not a plain run of digits
\* ends Invalid.
C3_EveryNonDigitTextInvalid ==
    (Passed /\ value # <<>> /\ ~AllDigits(value)) =>
        /\ outcome = "Invalid"
        /\ ActiveKinds = {"NotANumber"}
        /\ app.selected = {}
        /\ app.rack_indicator = ""

\* C3, amended: every non-empty text that is not one or more digits with at
\* most one "+" in front ends Invalid: NotANumber active and shown, OutOfRange
\* not, no cell highlighted, the rack number blank.
C3_NotANumber ==
    (Passed /\ value # <<>> /\ ~PlusDigits(value)) =>
        /\ outcome = "Invalid"
        /\ ActiveKinds = {"NotANumber"}
        /\ Shown = <<"Sequence must be a positive integer.">>
        /\ app.selected = {}
        /\ app.rack_indicator = ""

\* a pass on "-5" has ended Invalid
C3_Witness ==
    /\ outcome = "Invalid"
    /\ value = <<"-", "5">>
    /\ ActiveKinds = {"NotANumber"}

\* C4: a pass on the empty text ends Empty, not Invalid: afterwards no error
\* is active or shown, no cell is highlighted and the rack number is blank.
C4_Empty ==
    (Passed /\ value = <<>>) =>
        /\ outcome = "Empty"
        /\ ActiveKinds = {}
        /\ Shown = <<>>
        /\ app.selected = {}
        /\ app.rack_indicator = ""

\* the user has emptied the input box and the pass on it has ended Empty
C4_Witness ==
    /\ pc = "ready"
    /\ outcome = "Empty"
    /\ value = <<>>
    /\ input = <<>>
    /\ errors.errors = <<>>

\* C5: NotANumber and OutOfRange are never both active.
C5_MutualExclusion ==
    ~({"NotANumber", "OutOfRange"} \subseteq ActiveKinds)

\* a pass has ended OutOfRange with that error alone active and shown
C5_Witness ==
    /\ outcome = "OutOfRange"
    /\ ActiveKinds = {"OutOfRange"}
    /\ Shown = <<"Sequence must be between 1 and 160.">>

\* C6: at most one cell is marked selected, the marked cells are those of
\* dirty_locations, and after a Valid pass the marked cell is the one whose
\* data-seq is the rack-local number of the latest input.
C6_HighlightExclusive ==
    /\ Cardinality(app.selected) <= 1
    /\ app.selected = Range(app.dirty_locations)
    /\ Len(app.dirty_locations) <= 1
    /\ outcome = "Valid" => Cardinality(app.selected) = 1
    /\ \A s \in 1..160 :
          (outcome = "Valid" /\ value = FormatUsize(s)) =>
              \A k \in app.selected :
                  locations[k + 1] = FormatUsize(IF s > 80 THEN s - 80 ELSE s)

\* a pass on "10" has ended with cell 9 marked and no other
C6_Witness ==
    /\ outcome = "Valid"
    /\ value = <<"1", "0">>
    /\ app.selected = {9}
    /\ app.dirty_locations = <<9>>

\* C7, as claimed: every pass runs to its end, in one of Valid, OutOfRange,
\* Invalid and Empty; none ends in a panic.
C7_NoPanic ==
    Passed => outcome \in {"Valid", "OutOfRange", "Invalid", "Empty"}

\* C10, as claimed: after a pass on v the highlighted cell, the active error
\* kinds and the rack number are what a pass on v gives on a fresh widget,
\* whatever came before.
C10_HistoryIndependent ==
    Passed =>
        LET fresh == handle_input_change(NewRack(""), NewErrorDisplay, value,
                                         build.overflow_checks)
        IN  /\ app.selected = fresh.app.selected
            /\ ActiveKinds = KindsOf(fresh.errors)
            /\ app.rack_indicator = fresh.app.rack_indicator

----------------------------------------------------------------------------
(* Properties of ErrorDisplay on its own.                                  *)

\* at most one entry per error kind, and the container shows exactly the
\* tracked entries' elements, each with the message of its own entry
OnePerKind ==
    /\ \A i, j \in DOMAIN errors.errors :
          errors.errors[i][1][1] = errors.errors[j][1][1] => i = j
    /\ errors.container = [i \in DOMAIN errors.errors |-> errors.errors[i][2]]
    /\ \A i \in DOMAIN errors.errors :
          errors.errors[i][2].text = Display(errors.errors[i][1])

\* an add of a kind that is active leaves the display as it was
AddOfActiveKindIsNoOp ==
    \A e \in ErrorValues :
        (op' = <<"add", e>> /\ e[1] \in ActiveKinds) => errors' = errors

\* C8 (under SpecErrors): after any adds and clears there is at most one
\* entry and one shown message per error kind, and an add of a kind already
\* active, whatever bounds it carries, changes nothing: the first add's entry
\* and text stay.
C8_AddIdempotentByVariant == []OnePerKind /\ [][AddOfActiveKindIsNoOp]_vars

\* OutOfRange(0, 0) was added while OutOfRange(1, 160) was active: the entry
\* and the message of the first add are the ones there
C8_Witness ==
    /\ op = <<"add", OutOfRange(0, 0)>>
    /\ Len(errors.errors) = 1
    /\ errors.errors[1][1] = OutOfRange(1, 160)
    /\ Shown = <<"Sequence must be between 1 and 160.">>

\* C9, as claimed (under SpecErrorsAll): after clear_all no error is tracked
\* and no message is left in the error container.
C9_ClearAllReleasesAll ==
    op = <<"clear_all">> => (errors.errors = <<>> /\ errors.container = <<>>)

----------------------------------------------------------------------------
(* Properties of the listeners, checked under Spec.                        *)

\* what the user sees of a rack and an error display: the highlighted cells,
\* the active error kinds and the rack number
Visible(rk, ed) == <<rk.selected, KindsOf(ed), rk.rack_indicator>>

\* what typing raw into the input box leaves visible, from the current state
AfterTyping(raw) ==
    IF pc = "ready"
    THEN LET r == handle_input_change(app, errors, raw, build.overflow_checks)
         IN  Visible(r.app, r.errors)
    ELSE Visible(app, errors)

\* While the listeners are live, a touch-move, mouse-over or mouse-down on a
\* cell leaves visible what typing the cell's data-seq leaves visible from the
\* same state; once they are dead, no trigger changes what is visible.
PointerAsTyped ==
    /\ (pc = "ready" /\ source' \in {"touch", "over", "down"}) =>
          \A k \in Cells :
              (/\ locations[k + 1] = input'
               /\ TouchMove(<<"cell", k>>) \/ MouseOver(k) \/ MouseDown(k))
              => Visible(app', errors') = AfterTyping(locations[k + 1])
    /\ pc \in {"aborted", "unbound"} =>
          Visible(app', errors') = Visible(app, errors)

\* C11: started from the same state with the same raw value, the four trigger
\* sources leave the same active error kinds, the same highlighted cell and
\* the same rack number.
C11_SameDispatch == [][PointerAsTyped]_vars

\* a mouse-down on the cell of sequence 7 has run the pipeline: cell 6 is
\* highlighted, rack 1 shown, no error active
C11_Witness ==
    /\ source = "down"
    /\ outcome = "Valid"
    /\ value = <<"7">>
    /\ Visible(app, errors) = <<{6}, {}, "1">>

----------------------------------------------------------------------------
(* Further properties of ErrorDisplay on its own, checked under SpecErrors. *)

\* the entries of an errors vector that are not of the given kind, in order
NotOfKind(es, kind) ==
    LET Other(x) == x[1][1] # kind IN SelectSeq(es, Other)

\* the removal part of C12: a clear of an active kind removes its entry and its
\* message whatever bounds the argument carries; a clear of an inactive kind
\* changes nothing
ClearRemovesByVariant ==
    \A e \in ErrorValues :
        op' = <<"clear", e>> =>
            /\ e[1] \notin KindsOf(errors')
            /\ \A i \in DOMAIN errors.errors :
                  errors.errors[i][1][1] = e[1] =>
                      \A j \in DOMAIN errors'.container :
                          errors'.container[j] # errors.errors[i][2]
            /\ e[1] \notin ActiveKinds => errors' = errors

\* C12, as claimed: a clear matches by variant only, and the entry of the other
\* kind stays what it is and where it is.
C12_ClearKeepsPositions ==
    [][/\ ClearRemovesByVariant
       /\ \A e \in ErrorValues :
             op' = <<"clear", e>> =>
                 \A i \in DOMAIN errors.errors :
                     errors.errors[i][1][1] # e[1] =>
                         /\ i \in DOMAIN errors'.errors
                         /\ errors'.errors[i] = errors.errors[i]
                         /\ errors'.container[i] = errors.container[i]]_vars

\* C12, amended: a clear matches by variant only; the entry of the other kind
\* is kept with its value and its element, still shown, in the same order: it
\* moves up one place when the removed entry stood before it.
C12_ClearByVariant ==
    [][/\ ClearRemovesByVariant
       /\ \A e \in ErrorValues :
             op' = <<"clear", e>> =>
                 /\ errors'.errors = NotOfKind(errors.errors, e[1])
                 /\ errors'.container =
                        [i \in DOMAIN errors'.errors |-> errors'.errors[i][2]]
                 /\ \A i \in DOMAIN errors.errors :
                       errors.errors[i][1][1] # e[1] =>
                           LET before == {j \in 1..(i - 1) :
                                             errors.errors[j][1][1] = e[1]}
                           IN  errors'.errors[i - Cardinality(before)]
                                   = errors.errors[i]]_vars

\* clear(OutOfRange(0, 0)) has removed an OutOfRange entry added before the
\* NotANumber one, which is left alone with its element and message
C12_Witness ==
    /\ op = <<"clear", OutOfRange(0, 0)>>
    /\ errors.errors =
           << <<NotANumber,
                [id |-> 1, text |-> "Sequence must be a positive integer."]>> >>
    /\ Shown = <<"Sequence must be a positive integer.">>

----------------------------------------------------------------------------
(* The grid.                                                               *)

----------------------------------------------------------------------------
(* C14: the input box and the value fed to the pipeline.                   *)

\* a touch-move that finds no element, or an element without data-seq
TouchMiss == TouchMove(<<"none">>) \/ TouchMove(<<"other">>)

\* C14, as claimed: once a pass has run, the input box holds the raw value
\* most recently fed to handle_input_change, after any sequence of events;
\* and a touch-move that finds no cell changes neither the input box nor the
\* rack nor the errors.
C14_InputSynchronised ==
    /\ [](Passed => input = value)
    /\ [][TouchMiss => UNCHANGED <<input, app, errors, value, outcome>>]_vars

----------------------------------------------------------------------------
(* C15: the order of the active errors.                                    *)

\* the messages of the active errors, in the order the vector holds them
Messages(ed) == [i \in DOMAIN ed.errors |-> Display(ed.errors[i][1])]

\* an add that activates a kind puts it last; an add of an active kind and a
\* clear keep the others in the order they had
ActivationOrderKept ==
    \A e \in ErrorValues :
        /\ (op' = <<"add", e>> /\ e[1] \notin ActiveKinds) =>
               /\ Len(errors'.errors) = Len(errors.errors) + 1
               /\ SubSeq(errors'.errors, 1, Len(errors.errors)) = errors.errors
               /\ errors'.errors[Len(errors'.errors)][1] = e
        /\ (op' = <<"add", e>> /\ e[1] \in ActiveKinds) =>
               errors'.errors = errors.errors
        /\ op' = <<"clear", e>> =>
               errors'.errors = NotOfKind(errors.errors, e[1])

\* C15 (under SpecErrors): after any adds and clears the active errors stand
\* in the order in which they last became active (an add of an inactive kind
\* puts it last, an add of an active kind and a clear move nothing), and the
\* error container shows their messages in that same order.
C15_InsertionOrder ==
    /\ [](Shown = Messages(errors))
    /\ [][ActivationOrderKept]_vars

\* OutOfRange was added first, NotANumber second; OutOfRange was then cleared
\* and added again, and now stands, and shows, after NotANumber
C15_Witness ==
    /\ op = <<"add", OutOfRange(1, MaxSequence)>>
    /\ errors.errors =
           << <<NotANumber,
                [id |-> 1, text |-> "Sequence must be a positive integer."]>>,
              <<OutOfRange(1, MaxSequence),
                [id |-> 0, text |-> "Sequence must be between 1 and 160."]>> >>
    /\ Shown = <<"Sequence must be a positive integer.",
                 "Sequence must be between 1 and 160.">>

----------------------------------------------------------------------------
(* C16: what highlight_location returns and leaves highlighted.            *)

\* 1 <= seq <= 160
InRange(seq) == UGt(seq, Usize(0)) /\ ~UGt(seq, Usize(MaxSequence))

\* the latest call was highlight_location, and it ended in `ret`
Highlighted(ret) == op[1] = "highlight" /\ op[3] = ret

\* C16, as claimed: highlight_location(seq) returns true exactly when
\* 1 <= seq <= 160, and whenever it has returned false no cell is left
\* highlighted, a highlight made by an earlier call included.
C16_FalseLeavesNoHighlight ==
    op[1] = "highlight" =>
        /\ (op[3] = "true") <=> InRange(op[2])
        /\ op[3] = "false" => app.selected = {}

\* highlight_location returns true exactly on 1..160, with that one cell
\* highlighted; a call on 0 that returns false leaves no cell highlighted
ReturnsTrueInRange ==
    op[1] = "highlight" =>
        /\ (op[3] = "true") <=> InRange(op[2])
        /\ op[3] = "true" =>
               app.selected = {USub(RackLocal(op[2]), Usize(1)).val[2]}
        /\ (op[3] = "false" /\ ~UGt(op[2], Usize(MaxSequence))) =>
               app.selected = {}

\* a call on more than 160 leaves the rack as it found it
AboveRangeTouchesNothing ==
    (op'[1] = "highlight" /\ UGt(op'[2], Usize(MaxSequence))) =>
        /\ op'[3] = "false"
        /\ app' = app

\* C16, amended (under SpecRack): highlight_location(seq) returns true
\* exactly when 1 <= seq <= 160; on 0 it clears the previous highlight and
\* returns false or panics; on seq > 160 it returns false at once and leaves
\* the rack, a previous highlight included, as it was.
C16_AboveRangeKeepsHighlight ==
    /\ []ReturnsTrueInRange
    /\ [][AboveRangeTouchesNothing]_vars

\* highlight_location(161) has returned false, and cell 4, highlighted by an
\* earlier call on 5 or 85, still is
C16_Witness ==
    /\ op = <<"highlight", Usize(161), "false">>
    /\ app.selected = {4}
    /\ app.dirty_locations = <<4>>

----------------------------------------------------------------------------
(* C17: the rack-number display and the highlight.                         *)

\* the rack the accepted text cs asks for: 2 past 80, otherwise 1
RackOf(cs) ==
    LET ds == IF Head(cs) = "+" THEN Tail(cs) ELSE cs
    IN  IF DecValue(Significant(ds)) > RackSize THEN "2" ELSE "1"

\* C17, as claimed: after every pass the rack-number display shows a number
\* exactly when a cell is highlighted: the rack of the latest input after
\* Valid, nothing after OutOfRange, Invalid and Empty.
C17_RackNumberIffHighlighted ==
    Passed =>
        /\ (app.rack_indicator # "") <=> (app.selected # {})
        /\ outcome = "Valid" => app.rack_indicator = RackOf(value)
        /\ outcome \in {"OutOfRange", "Invalid", "Empty"} =>
               app.rack_indicator = ""
        /\ outcome \in {"Valid", "OutOfRange", "Invalid", "Empty"}

----------------------------------------------------------------------------
(* C18: a pointer event on a cell highlights that cell.                    *)

\* the step is a touch-move, mouse-over or mouse-down on cell k
PointerOn(k) == TouchMove(<<"cell", k>>) \/ MouseOver(k) \/ MouseDown(k)

\* after the step the pipeline has run on the data-seq of cell k and ended
\* Valid: that cell alone highlighted, rack number 1, no error
RoundTrip(k) ==
    /\ value' = locations[k + 1]
    /\ outcome' = "Valid"
    /\ app'.selected = {k}
    /\ app'.rack_indicator = "1"
    /\ KindsOf(errors') = {}
    /\ errors'.container = <<>>

\* C18, as claimed: every touch, mouse-over or mouse-down on a cell feeds the
\* cell's data-seq to the pipeline and ends Valid with exactly that cell
\* highlighted, rack number 1 and no error.
C18_PointerRoundTrip ==
    [][source' \in {"touch", "over", "down"} =>
          \A k \in Cells :
              ((pc = "aborted" \/ locations[k + 1] = input') /\ PointerOn(k))
                  => RoundTrip(k)]_vars

====
